---- MODULE Spec2Model ----
(***************************************************************************)
(* Model of SLRDesk (src/main.py): the keyword filter, the highlight       *)
(* renderer and the paging of the filtered table of MainWindow.            *)
(*                                                                         *)
(* Text is a sequence of one-character strings.  A data frame is a record  *)
(* [isdf, cols, rows]; a row is [idx, cells] where idx is the pandas index *)
(* label and cells maps a column name to a cell (NaN or a text).           *)
(***************************************************************************)
EXTENDS Integers, Sequences, FiniteSets, TLC

VARIABLES
    df,               \* self.df
    filtered_df,      \* self.filtered_df
    table_model,      \* self.filtered_table.model(): [ismodel, full_df, df]
    page_size_spin,   \* self.page_size_spin.value()
    page_index_spin,  \* self.page_index_spin.value()
    page_index_max,   \* self.page_index_spin.maximum()
    page_size,        \* self.page_size
    page_index,       \* self.page_index
    lbl_pageinfo,     \* self.lbl_pageinfo: [cur, tot] for "Page cur / tot"
    btn_sort_hits,    \* self.btn_sort_hits.isChecked()
    filter_cfg,       \* self.filter_cfg
    op,               \* history: the last handler run and what it was asked
    walk,             \* history: pages seen since first_page, by next_page only
    hl,               \* one call of _highlight_text: its arguments and result
    call              \* one call of a helper: [fn, arg, done, result]

vars == <<df, filtered_df, table_model, page_size_spin, page_index_spin,
          page_index_max, page_size, page_index, lbl_pageinfo, btn_sort_hits,
          filter_cfg, op, walk, hl, call>>

----------------------------------------------------------------------------
(* Bounds of the model *)

MaxPageSize == 12

MaxRows == 22

MaxCutoff == 11

MaxTyped == 3

MaxFilterRows == 2

MaxTextLen == 3

MaxKeys == 2

MaxTokens == 3

MaxCols == 2

MaxCands == 2
\* Segments of an affiliation text.
MaxAffils == 2
\* Entries of a country string.
MaxCountries == 3
\* Records of a data set given to the collaboration table.
MaxCollabRows == 2
\* Segments of an affiliation text given to the institution classifier.
MaxInstSegs == 3
\* Records of a data set given to the institution table.
MaxInstRows == 2

----------------------------------------------------------------------------
(* Program constants *)

PageSizeMin == 10

PageSizeDefault == 50

PageIndexSpinMax == 999999

CutoffMin == 1
CutoffMax == 9999

----------------------------------------------------------------------------
(* Strings *)

NaN == <<"NaN">>

isna(cell) == cell = NaN

Min2(a, b) == IF a < b THEN a ELSE b

Max2(a, b) == IF a > b THEN a ELSE b

lower_char(c) ==
    CASE c = "A" -> "a"
      [] c = "B" -> "b"
      [] OTHER -> c

RECURSIVE lower(_)
lower(s) ==
    IF s = <<>> THEN <<>> ELSE <<lower_char(Head(s))>> \o lower(Tail(s))

MatchAt(s, w, i) ==
    /\ i >= 1
    /\ i + Len(w) - 1 <= Len(s)
    /\ w = <<>> \/ s[i] = w[1]
    /\ SubSeq(s, i, i + Len(w) - 1) = w

RECURSIVE CountFrom(_, _, _)
CountFrom(s, w, i) ==
    IF i + Len(w) - 1 > Len(s) THEN 0
    ELSE IF MatchAt(s, w, i) THEN 1 + CountFrom(s, w, i + Len(w))
    ELSE CountFrom(s, w, i + 1)

str_count(s, w) == IF w = <<>> THEN Len(s) + 1 ELSE CountFrom(s, w, 1)

find_char(s, c, i) ==
    IF \E j \in i..Len(s) : s[j] = c
    THEN CHOOSE j \in i..Len(s) : s[j] = c /\ \A h \in i..(j - 1) : s[h] # c
    ELSE 0

\* The concatenation of parts[lo], ..., parts[hi].
RECURSIVE join_range(_, _, _)
join_range(parts, lo, hi) ==
    IF lo > hi THEN <<>>
    ELSE IF lo = hi THEN parts[lo]
    ELSE join_range(parts, lo, (lo + hi) \div 2)
         \o join_range(parts, (lo + hi) \div 2 + 1, hi)

join(parts) == join_range(parts, 1, Len(parts))

RECURSIVE lstrip(_)
lstrip(s) == IF s # <<>> /\ Head(s) = " " THEN lstrip(Tail(s)) ELSE s

RECURSIVE rstrip(_)
rstrip(s) ==
    IF s # <<>> /\ s[Len(s)] = " " THEN rstrip(SubSeq(s, 1, Len(s) - 1)) ELSE s

strip(s) == rstrip(lstrip(s))

RECURSIVE split(_, _)
split(s, c) ==
    LET p == find_char(s, c, 1)
    IN  IF p = 0 THEN <<s>>
        ELSE <<SubSeq(s, 1, p - 1)>> \o split(SubSeq(s, p + 1, Len(s)), c)

----------------------------------------------------------------------------
(* Keyword spec parser *)

DefaultColor == <<"#", "c">>

RECURSIVE mapping_index(_, _, _)
mapping_index(mapping, k, i) ==
    IF i > Len(mapping) THEN 0
    ELSE IF mapping[i].k = k THEN i
    ELSE mapping_index(mapping, k, i + 1)

mapping_set(mapping, k, c) ==
    LET i == mapping_index(mapping, k, 1)
    IN  IF i = 0 THEN Append(mapping, [k |-> k, c |-> c])
        ELSE [mapping EXCEPT ![i] = [k |-> k, c |-> c]]

RECURSIVE parse_tokens(_, _, _)
parse_tokens(tokens, mapping, words) ==
    IF tokens = <<>> THEN [mapping |-> mapping, words |-> words]
    ELSE
        LET token == strip(Head(tokens))
            p     == find_char(token, ":", 1)
        IN  IF token = <<>> THEN parse_tokens(Tail(tokens), mapping, words)
            ELSE IF p # 0
            THEN LET k == strip(SubSeq(token, 1, p - 1))
                     c == strip(SubSeq(token, p + 1, Len(token)))
                 IN  parse_tokens(Tail(tokens), mapping_set(mapping, k, c),
                                  Append(words, k))
            ELSE parse_tokens(Tail(tokens),
                              mapping_set(mapping, token, DefaultColor),
                              Append(words, token))

_parse_keyword_mapping(raw) ==
    IF raw = <<>> THEN [mapping |-> <<>>, words |-> <<>>]
    ELSE parse_tokens(split(raw, ","), <<>>, <<>>)

----------------------------------------------------------------------------
(* Data frames *)

NoDF == [isdf |-> FALSE, cols |-> <<>>, rows |-> <<>>]

NoModel == [ismodel |-> FALSE, full_df |-> <<>>, df |-> <<>>]

NoCfg == [iscfg |-> FALSE, raw |-> <<>>, cutoff |-> 1, case |-> FALSE,
          cols |-> <<>>]

PandasModel(d) == [ismodel |-> TRUE, full_df |-> d.rows, df |-> d.rows]

\* A slice that stops one record short of the window.
iloc_short(rows, start, length) ==
    IF start >= Len(rows) THEN <<>>
    ELSE SubSeq(rows, start + 1, Min2(start + length - 1, Len(rows)))

iloc(rows, start, length) ==
    IF start >= Len(rows) THEN <<>>
    ELSE SubSeq(rows, start + 1, Min2(start + length, Len(rows)))

page(m, start, length) == [m EXCEPT !.df = iloc(m.full_df, start, length)]

SeqRange(s) == {s[i] : i \in 1..Len(s)}

RECURSIVE SelectCols(_, _)
SelectCols(cols, keep) ==
    IF cols = <<>> THEN <<>>
    ELSE IF Head(cols) \in keep THEN <<Head(cols)>> \o SelectCols(Tail(cols), keep)
    ELSE SelectCols(Tail(cols), keep)

TEXT_COL_CANDIDATES ==
    <<"title", "document title", "article title", "abstract", "description",
      "author keywords", "index keywords", "keywords">>

col_lower(c) ==
    CASE c = "Title" -> "title"
      [] c = "TITLE" -> "title"
      [] c = "Abstract" -> "abstract"
      [] c = "Notes" -> "notes"
      [] OTHER -> c

is_object(d, c) ==
    \/ d.rows = <<>>
    \/ \E i \in 1..Len(d.rows) : ~isna(d.rows[i].cells[c])

RECURSIVE pick_candidates(_, _)
pick_candidates(cands, cols) ==
    IF cands = <<>> THEN <<>>
    ELSE
        LET hit == {i \in 1..Len(cols) : col_lower(cols[i]) = Head(cands)}
        IN  IF hit = {} THEN pick_candidates(Tail(cands), cols)
            ELSE <<cols[CHOOSE i \in hit : \A j \in hit : j <= i]>>
                 \o pick_candidates(Tail(cands), cols)

_guess_text_columns(d) ==
    LET picked == pick_candidates(TEXT_COL_CANDIDATES, d.cols)
    IN  IF picked # <<>> THEN picked
        ELSE SelectCols(d.cols, {c \in SeqRange(d.cols) : is_object(d, c)})

----------------------------------------------------------------------------
(* Relevance scorer and filter *)

RECURSIVE sum_over_words(_, _, _)
sum_over_words(s, words, case) ==
    IF words = <<>> THEN 0
    ELSE (IF case THEN str_count(s, Head(words))
          ELSE str_count(lower(s), lower(Head(words))))
         + sum_over_words(s, Tail(words), case)

count_hits_cell(cell, words, case) ==
    IF isna(cell) THEN 0 ELSE sum_over_words(cell, words, case)

RECURSIVE sum_axis1(_, _, _, _)
sum_axis1(row, target_cols, words, case) ==
    IF target_cols = <<>> THEN 0
    ELSE count_hits_cell(row.cells[Head(target_cols)], words, case)
         + sum_axis1(row, Tail(target_cols), words, case)

hit_counts(d, target_cols, words, case) ==
    [i \in 1..Len(d.rows) |->
        IF words # <<>> /\ target_cols # <<>>
        THEN sum_axis1(d.rows[i], target_cols, words, case)
        ELSE 0]

RECURSIVE PermSeqs(_)
PermSeqs(S) ==
    IF S = {} THEN {<<>>}
    ELSE UNION {{<<x>> \o p : p \in PermSeqs(S \ {x})} : x \in S}

RECURSIVE sort_values_desc(_, _)
sort_values_desc(S, h) ==
    IF S = {} THEN {<<>>}
    ELSE
        LET m == CHOOSE v \in {h[i] : i \in S} : \A i \in S : h[i] <= v
            G == {i \in S : h[i] = m}
        IN  {p \o q : p \in PermSeqs(G), q \in sort_values_desc(S \ G, h)}

\* A mask that keeps the records whose hit count is above the cutoff only.
mask_gt(h, cutoff) == [i \in 1..Len(h) |-> h[i] > cutoff]

mask_ge(h, cutoff) == [i \in 1..Len(h) |-> h[i] >= cutoff]

\* The positions a boolean mask selects, in the order of the data frame.
loc(mask) == join([i \in 1..Len(mask) |-> IF mask[i] THEN <<i>> ELSE <<>>])

\* df[col] = values: the column is overwritten, or added as the last one.
assign(d, col, values) ==
    [isdf |-> TRUE,
     cols |-> IF col \in SeqRange(d.cols) THEN d.cols ELSE Append(d.cols, col),
     rows |-> [i \in 1..Len(d.rows) |->
                 [idx   |-> d.rows[i].idx,
                  cells |-> [c \in SeqRange(d.cols) \cup {col} |->
                               IF c = col THEN values[i]
                               ELSE d.rows[i].cells[c]]]]]

\* A drop that leaves the frame as it is.
drop_nothing(d, col) == d

\* d.drop(columns=[col], errors="ignore")
drop(d, col) ==
    [isdf |-> TRUE,
     cols |-> SelectCols(d.cols, SeqRange(d.cols) \ {col}),
     rows |-> [i \in 1..Len(d.rows) |->
                 [idx   |-> d.rows[i].idx,
                  cells |-> [c \in SeqRange(d.cols) \ {col} |->
                               d.rows[i].cells[c]]]]]

resolve_target_cols(d, cfg) ==
    LET target_cols == SelectCols(cfg.cols, SeqRange(d.cols))
    IN  IF target_cols # <<>> THEN target_cols ELSE _guess_text_columns(d)

\* The copy of the data set with its hit counts in the column "__hits__".
scored_frame(d, cfg) ==
    assign(d, "__hits__",
           hit_counts(d, resolve_target_cols(d, cfg),
                      _parse_keyword_mapping(cfg.raw).words, cfg.case))

\* The records kept of the scored frame, as positions, in each order the
\* pass can leave them in.
kept_orders_of(scored, cutoff, sorted) ==
    LET h    == [i \in 1..Len(scored.rows) |-> scored.rows[i].cells["__hits__"]]
        kept == loc(mask_ge(h, cutoff))
    IN  IF sorted THEN sort_values_desc(SeqRange(kept), h) ELSE {kept}

----------------------------------------------------------------------------
(* Highlight renderer *)

html_escape_char(c) ==
    CASE c = "&" -> <<"&", "a", "m", "p", ";">>
      [] c = "<" -> <<"&", "l", "t", ";">>
      [] c = ">" -> <<"&", "g", "t", ";">>
      [] c = "\"" -> <<"&", "q", "u", "o", "t", ";">>
      [] c = "'" -> <<"&", "#", "x", "2", "7", ";">>
      [] OTHER -> <<c>>

html_escape(s) == join([i \in 1..Len(s) |-> html_escape_char(s[i])])

\* str.replace takes the occurrences of old from left to right, each one
\* starting after the end of the one taken before.
RECURSIVE replaced_at(_, _, _)
replaced_at(s, old, i) ==
    /\ MatchAt(s, old, i)
    /\ \A j \in Max2(1, i - Len(old) + 1)..(i - 1) : ~replaced_at(s, old, j)

\* s from position i on, with new put for the width characters at each of
\* the positions in taken.
RECURSIVE splice(_, _, _, _, _)
splice(s, taken, i, width, new) ==
    IF taken = {} THEN SubSeq(s, i, Len(s))
    ELSE LET j == CHOOSE t \in taken : \A u \in taken : t <= u
         IN  SubSeq(s, i, j - 1) \o new
             \o splice(s, taken \ {j}, j + width, width, new)

\* str.replace for a pattern that is not empty: the occurrences of old are
\* taken from the left, none overlapping the one before.
str_replace(s, old, new) ==
    splice(s, {i \in 1..Len(s) : s[i] = old[1] /\ replaced_at(s, old, i)},
           1, Len(old), new)

RECURSIVE mapping_keys(_)
mapping_keys(mapping) ==
    IF mapping = <<>> THEN <<>>
    ELSE <<Head(mapping).k>> \o mapping_keys(Tail(mapping))

mapping_get(mapping, k, default) ==
    LET i == mapping_index(mapping, k, 1)
    IN  IF i = 0 THEN default ELSE mapping[i].c

RECURSIVE insert_by_len(_, _)
insert_by_len(sorted, k) ==
    IF sorted = <<>> THEN <<k>>
    ELSE IF Len(Head(sorted)) >= Len(k)
    THEN <<Head(sorted)>> \o insert_by_len(Tail(sorted), k)
    ELSE <<k>> \o sorted

RECURSIVE sorted_by_len_desc(_, _)
sorted_by_len_desc(ks, acc) ==
    IF ks = <<>> THEN acc
    ELSE sorted_by_len_desc(Tail(ks), insert_by_len(acc, Head(ks)))

\* The keys in the order they were entered, not sorted by length.
entry_order_keys(mapping) == mapping_keys(mapping)

sorted_keys(mapping) == sorted_by_len_desc(mapping_keys(mapping), <<>>)

re_match_at(s, k, i, case) ==
    IF case THEN MatchAt(s, k, i) ELSE MatchAt(lower(s), lower(k), i)

RECURSIVE first_alternative(_, _, _, _, _)
first_alternative(s, keys, j, i, case) ==
    IF j > Len(keys) THEN 0
    ELSE IF re_match_at(s, keys[j], i, case) THEN j
    ELSE first_alternative(s, keys, j + 1, i, case)

RECURSIVE canonical_key(_, _, _, _)
canonical_key(word, keys, j, case) ==
    IF j > Len(keys) THEN keys[1]
    ELSE IF (IF case THEN word = keys[j] ELSE lower(word) = lower(keys[j]))
    THEN keys[j]
    ELSE canonical_key(word, keys, j + 1, case)

\* The matches re.sub makes, left to right: where, which text, which key.
RECURSIVE re_matches(_, _, _, _)
re_matches(s, keys, i, case) ==
    IF i > Len(s) THEN <<>>
    ELSE
        LET j == first_alternative(s, keys, 1, i, case)
        IN  IF j = 0 THEN re_matches(s, keys, i + 1, case)
            ELSE LET word == SubSeq(s, i, i + Len(keys[j]) - 1)
                 IN  <<[pos |-> i, word |-> word,
                        key |-> canonical_key(word, keys, 1, case)]>>
                     \o re_matches(s, keys, i + Len(keys[j]), case)

SpanOpen ==
    <<"<", "b", ">", "<", "s", "p", "a", "n", " ", "s", "t", "y", "l", "e",
      "=", "'", "c", "o", "l", "o", "r", ":">>

SpanClose == <<"<", "/", "s", "p", "a", "n", ">", "<", "/", "b", ">">>

repl(m, mapping) ==
    SpanOpen \o mapping_get(mapping, m.key, <<"#", "c", "0", "0", "0", "0", "0">>)
    \o <<"'", ">">> \o html_escape(m.word) \o SpanClose

RECURSIVE re_sub(_, _, _, _)
re_sub(s, matches, i, mapping) ==
    IF matches = <<>> THEN SubSeq(s, i, Len(s))
    ELSE SubSeq(s, i, Head(matches).pos - 1)
         \o repl(Head(matches), mapping)
         \o re_sub(s, Tail(matches), Head(matches).pos + Len(Head(matches).word),
                   mapping)

unescape_tags(s) ==
    str_replace(
        str_replace(
            str_replace(
                str_replace(s, <<"&", "l", "t", ";", "b", "&", "g", "t", ";">>,
                            <<"<", "b", ">">>),
                <<"&", "l", "t", ";", "/", "b", "&", "g", "t", ";">>,
                <<"<", "/", "b", ">">>),
            <<"&", "l", "t", ";", "s", "p", "a", "n">>,
            <<"<", "s", "p", "a", "n">>),
        <<"s", "p", "a", "n", "&", "g", "t", ";">>,
        <<"s", "p", "a", "n", ">">>)

tally(matches, k) ==
    Cardinality({i \in 1..Len(matches) : matches[i].key = k})

_highlight_text(text, mapping, case) ==
    IF text = <<>>
    THEN [html |-> <<>>, counts |-> <<>>, matches |-> <<>>]
    ELSE IF mapping = <<>>
    THEN [html |-> html_escape(text), counts |-> <<>>, matches |-> <<>>]
    ELSE
        LET keys    == sorted_keys(mapping)
            matches == re_matches(text, keys, 1, case)
            out     == re_sub(text, matches, 1, mapping)
        IN  [html    |-> unescape_tags(html_escape(out)),
             counts  |-> [i \in 1..Len(mapping) |->
                             [k |-> mapping[i].k,
                              n |-> tally(matches, mapping[i].k)]],
             matches |-> matches]

----------------------------------------------------------------------------
(* Column resolver *)

None == <<"None">>

\* s in t, for texts.
contains(t, s) == \E i \in 1..(Len(t) + 1) : MatchAt(t, s, i)

\* low = {c.lower(): c for c in columns}: the last column of a lower-cased
\* name is the one the name maps to.
low_get(columns, name) ==
    LET hit == {i \in 1..Len(columns) : lower(columns[i]) = name}
    IN  IF hit = {} THEN None
        ELSE columns[CHOOSE i \in hit : \A j \in hit : j <= i]

\* No exact pass: every call goes on to the contains pass.
exact_match_skipped(columns, cands) == None

RECURSIVE exact_match(_, _)
exact_match(columns, cands) ==
    IF cands = <<>> THEN None
    ELSE IF /\ Head(cands) # <<>>
            /\ low_get(columns, lower(Head(cands))) # None
    THEN low_get(columns, lower(Head(cands)))
    ELSE exact_match(columns, Tail(cands))

RECURSIVE contains_match(_, _)
contains_match(columns, cands) ==
    IF columns = <<>> THEN None
    ELSE IF \E j \in 1..Len(cands) :
               /\ cands[j] # <<>>
               /\ contains(lower(Head(columns)), lower(cands[j]))
    THEN Head(columns)
    ELSE contains_match(Tail(columns), cands)

_get_col(d, cands) ==
    IF ~d.isdf THEN None
    ELSE IF exact_match(d.cols, cands) # None THEN exact_match(d.cols, cands)
    ELSE contains_match(d.cols, cands)

----------------------------------------------------------------------------
(* Countries and collaboration scope *)

\* The characters of the texts below, in code point order.
CodePoints ==
    <<" ", ",", ";", "A", "B", "C", "D", "E", "F", "G", "H", "I", "J", "K",
      "L", "M", "N", "O", "P", "Q", "R", "S", "T", "U", "V", "W", "X", "Y",
      "Z", "a", "b", "c", "d", "e", "f", "g", "h", "i", "j", "k", "l", "m",
      "n", "o", "p", "q", "r", "s", "t", "u", "v", "w", "x", "y", "z">>

ord(c) == CHOOSE i \in 1..Len(CodePoints) : CodePoints[i] = c

\* s < t as Python compares strings.
RECURSIVE str_less(_, _)
str_less(s, t) ==
    IF t = <<>> THEN FALSE
    ELSE IF s = <<>> THEN TRUE
    ELSE IF Head(s) = Head(t) THEN str_less(Tail(s), Tail(t))
    ELSE ord(Head(s)) < ord(Head(t))

\* sorted(S) for a set of strings.
RECURSIVE sorted(_)
sorted(S) ==
    IF S = {} THEN <<>>
    ELSE LET m == CHOOSE x \in S : \A y \in S \ {x} : str_less(x, y)
         IN  <<m>> \o sorted(S \ {m})

\* sep.join(parts)
RECURSIVE join_with(_, _)
join_with(parts, sep) ==
    IF parts = <<>> THEN <<>>
    ELSE IF Len(parts) = 1 THEN parts[1]
    ELSE parts[1] \o sep \o join_with(Tail(parts), sep)

\* [x.strip() for x in text.split(c) if x.strip()]
RECURSIVE stripped_nonblank(_)
stripped_nonblank(parts) ==
    IF parts = <<>> THEN <<>>
    ELSE (IF strip(Head(parts)) = <<>> THEN <<>> ELSE <<strip(Head(parts))>>)
         \o stripped_nonblank(Tail(parts))

\* part.split(",")[-1].strip()
last_segment(part) ==
    LET segs == split(part, ",") IN strip(segs[Len(segs)])

\* fillna("").astype(str) of one cell
as_text(cell) == IF isna(cell) THEN <<>> ELSE cell

Unknown == <<"U", "n", "k", "n", "o", "w", "n">>

_extract_main_country(text) ==
    LET parts == stripped_nonblank(split(text, ";"))
    IN  IF parts = <<>> THEN Unknown
        ELSE IF last_segment(parts[1]) = <<>> THEN Unknown
        ELSE last_segment(parts[1])

_extract_countries_from_affil(text) ==
    LET parts     == stripped_nonblank(split(text, ";"))
        countries == {c \in {last_segment(parts[i]) : i \in 1..Len(parts)} :
                         Len(c) >= 3}
    IN  join_with(sorted(countries), <<";", " ">>)

_detect_collab_scope(country_string) ==
    LET countries == stripped_nonblank(split(country_string, ";"))
    IN  IF Cardinality(SeqRange(countries)) > 1 THEN "International"
        ELSE IF Len(countries) = 1 THEN "Domestic"
        ELSE "Unknown"

COUNTRY_COL_CANDIDATES ==
    <<<<"C", "o", "u", "n", "t", "r", "y">>,
      <<"C", "o", "u", "n", "t", "r", "i", "e", "s">>,
      <<"C", "o", "u", "n", "t", "r", "y", "/", "R", "e", "g", "i", "o", "n">>>>

AFFIL_COL_CANDIDATES ==
    <<<<"a", "f", "f", "i", "l", "i", "a", "t", "i", "o", "n", "s">>,
      <<"A", "f", "f", "i", "l", "i", "a", "t", "i", "o", "n", "s">>,
      <<"A", "u", "t", "h", "o", "r", "s", " ", "w", "i", "t", "h", " ",
        "a", "f", "f", "i", "l", "i", "a", "t", "i", "o", "n", "s">>,
      <<"A", "u", "t", "h", "o", "r", " ",
        "A", "f", "f", "i", "l", "i", "a", "t", "i", "o", "n", "s">>>>

_affil_col(d) == _get_col(d, AFFIL_COL_CANDIDATES)

\* s.split(";")[0].strip() if ";" in s else s
first_of_multi(s) ==
    IF find_char(s, ";", 1) # 0 THEN strip(split(s, ";")[1]) ELSE s

\* The series of one country per record, or None.
_get_country_series(d) ==
    IF ~d.isdf THEN None
    ELSE IF _get_col(d, COUNTRY_COL_CANDIDATES) # None
    THEN LET col_country == _get_col(d, COUNTRY_COL_CANDIDATES)
         IN  [i \in 1..Len(d.rows) |->
                first_of_multi(strip(as_text(d.rows[i].cells[col_country])))]
    ELSE IF _get_col(d, AFFIL_COL_CANDIDATES) = None THEN None
    ELSE LET col_aff == _get_col(d, AFFIL_COL_CANDIDATES)
         IN  [i \in 1..Len(d.rows) |->
                _extract_main_country(as_text(d.rows[i].cells[col_aff]))]

\* ser.str.strip().replace("", NA).dropna().value_counts(): the document
\* count of every country of the series.
value_counts(ser) ==
    LET names == {strip(ser[i]) : i \in 1..Len(ser)} \ {<<>>}
    IN  [c \in names |-> Cardinality({i \in 1..Len(ser) : strip(ser[i]) = c})]

TopCountries == 20

\* Data sets hold up to TopCountries + MaxExtraCountries countries.
MaxExtraCountries == 1

\* totals.nlargest(n) without its cut: every entry of the index.
nlargest_all(n, index, totals) == SeqRange(index)

\* totals.nlargest(n).index: of equal totals the earlier index entries.
nlargest(n, index, totals) ==
    {index[i] : i \in {i \in 1..Len(index) :
        Cardinality({j \in 1..Len(index) :
            \/ totals[index[j]] > totals[index[i]]
            \/ totals[index[j]] = totals[index[i]] /\ j < i}) < n}}

\* _build_collab_scope_table returning None.
NoTable == [istable |-> FALSE, counts |-> <<>>, order |-> <<>>]

\* The main country and the collaboration scope of every record.
collab_keys(d, col_aff) ==
    LET extracted(i) ==
            _extract_countries_from_affil(as_text(d.rows[i].cells[col_aff]))
        key(x) == [main  |-> IF x # <<>> THEN strip(split(x, ";")[1])
                             ELSE Unknown,
                   scope |-> _detect_collab_scope(x)]
    IN  [i \in 1..Len(d.rows) |-> key(extracted(i))]

\* groupby(["Main Country", "Collab Scope"]).size().unstack(fill_value=0),
\* the columns other than Domestic and International dropped and these two
\* added with 0 where they are missing.
scope_count(keys) ==
    LET size(c, sc) ==
            Cardinality({i \in 1..Len(keys) :
                            keys[i].main = c /\ keys[i].scope = sc})
    IN  [c \in {keys[i].main : i \in 1..Len(keys)} |->
            [Domestic      |-> size(c, "Domestic"),
             International |-> size(c, "International")]]

\* scope_count.sum(axis=1)
sum_axis(counts) ==
    [c \in DOMAIN counts |-> counts[c].Domestic + counts[c].International]

\* sort_values(by="__total__", ascending=False) of the rows S: the rows in
\* groups of equal total, the largest total first. The sort is not stable:
\* the order of the rows within a group is open.
RECURSIVE sort_values_descending(_, _)
sort_values_descending(S, totals) ==
    IF S = {} THEN <<>>
    ELSE LET m == CHOOSE v \in {totals[c] : c \in S} :
                      \A c \in S : totals[c] <= v
             G == {c \in S : totals[c] = m}
         IN  <<G>> \o sort_values_descending(S \ G, totals)

\* The rows top_idx of scope_count, sorted by their total.
top_rows(counts, totals, top_idx) ==
    [istable |-> TRUE,
     counts  |-> [c \in top_idx |-> counts[c]],
     order   |-> sort_values_descending(top_idx, totals)]

\* The table as the counts of its listed countries and the order of its rows.
_build_collab_scope_table(d) ==
    IF ~d.isdf THEN NoTable
    ELSE IF _affil_col(d) = None THEN NoTable
    ELSE
        LET counts == scope_count(collab_keys(d, _affil_col(d)))
            totals == sum_axis(counts)
            index  == sorted(DOMAIN counts)
        IN  IF index = <<>> THEN NoTable
            ELSE top_rows(counts, totals,
                          nlargest(TopCountries, index, totals))

----------------------------------------------------------------------------
(* Institution types *)

ACADEMIC_KEYS ==
    <<<<"u", "n", "i", "v">>,
      <<"c", "o", "l", "l", "e", "g", "e">>,
      <<"f", "a", "c", "u", "l", "t", "y">>,
      <<"s", "c", "h", "o", "o", "l", " ", "o", "f">>>>

RESEARCH_KEYS ==
    <<<<"r", "e", "s", "e", "a", "r", "c", "h">>,
      <<"a", "c", "a", "d", "e", "m", "y">>,
      <<"l", "a", "b", "o", "r", "a", "t", "o", "r", "y">>,
      <<"i", "n", "s", "t", "i", "t", "u", "t", "e">>>>

INDUSTRY_KEYS ==
    <<<<"c", "o", "r", "p">>,
      <<"c", "o", ".">>,
      <<"i", "n", "c">>,
      <<"l", "t", "d">>,
      <<"t", "e", "c", "h">>,
      <<"c", "o", "m", "p", "a", "n", "y">>>>

GOVERNMENT_KEYS ==
    <<<<"g", "o", "v">>,
      <<"m", "i", "n", "i", "s", "t", "r", "y">>,
      <<"b", "u", "r", "e", "a", "u">>,
      <<"d", "e", "p", "a", "r", "t", "m", "e", "n", "t">>>>

\* any(k in affil for k in keys)
any_in(keys, affil) == \E i \in 1..Len(keys) : contains(affil, keys[i])

\* The families tried in another order: Industry first.
classify_affil_industry_first(affil) ==
    IF any_in(INDUSTRY_KEYS, affil) THEN "Industry"
    ELSE IF any_in(ACADEMIC_KEYS, affil) THEN "Academic"
    ELSE IF any_in(RESEARCH_KEYS, affil) THEN "Research"
    ELSE IF any_in(GOVERNMENT_KEYS, affil) THEN "Government"
    ELSE "Unknown"

\* The if/elif chain over one affiliation, already trimmed and lowered.
classify_affil(affil) ==
    IF any_in(ACADEMIC_KEYS, affil) THEN "Academic"
    ELSE IF any_in(RESEARCH_KEYS, affil) THEN "Research"
    ELSE IF any_in(INDUSTRY_KEYS, affil) THEN "Industry"
    ELSE IF any_in(GOVERNMENT_KEYS, affil) THEN "Government"
    ELSE "Unknown"

\* [a.strip().lower() for a in affil_str.split(";") if a.strip()]
lowered_affils(affil_str) ==
    LET parts == stripped_nonblank(split(affil_str, ";"))
    IN  [i \in 1..Len(parts) |-> lower(parts[i])]

_classify_institution_types(affil_str) ==
    LET affils == lowered_affils(affil_str)
    IN  {classify_affil(affils[i]) : i \in 1..Len(affils)}

_categorize_institution_combination(affil_str) ==
    LET types == _classify_institution_types(affil_str) \ {"Unknown"}
        unique_affil_count ==
            Cardinality(SeqRange(lowered_affils(affil_str)))
    IN  IF types = {"Academic"}
        THEN IF unique_affil_count <= 1 THEN "Same Academic/University"
             ELSE "Different Academic"
        ELSE IF types = {"Research"} THEN "Research only"
        ELSE IF types = {"Industry"} THEN "Industry only"
        ELSE IF types = {"Government"} THEN "Government only"
        ELSE IF {"Academic", "Research"} \subseteq types
                /\ Cardinality(types) = 2
        THEN "Academic and Research"
        ELSE IF {"Academic", "Industry"} \subseteq types
                /\ Cardinality(types) = 2
        THEN "Academic and Industry"
        ELSE IF {"Academic", "Government"} \subseteq types
                /\ Cardinality(types) = 2
        THEN "Academic and Government"
        ELSE "Mixed Collaboration"

\* The table plot_institution_collab_types draws: cats.value_counts(), or
\* NoTable when there is no data set or no affiliation column.
plot_institution_collab_types(d) ==
    IF ~d.isdf THEN NoTable
    ELSE IF _get_col(d, AFFIL_COL_CANDIDATES) = None THEN NoTable
    ELSE
        LET col_aff == _get_col(d, AFFIL_COL_CANDIDATES)
            cats    == [i \in 1..Len(d.rows) |->
                          _categorize_institution_combination(
                              as_text(d.rows[i].cells[col_aff]))]
        IN  [istable |-> TRUE,
             counts  |-> [c \in SeqRange(cats) |->
                            Cardinality({i \in 1..Len(cats) : cats[i] = c})]]

----------------------------------------------------------------------------
(* Paginator *)

df_len(d) == IF d.isdf THEN Len(d.rows) ELSE 0

tot_pages_of(total, ps) == Max2(1, (total + Max2(1, ps) - 1) \div Max2(1, ps))

spin_setValue(v, maximum) == Min2(Max2(0, v), maximum)

\* The paging state a handler works on.
Paging ==
    [tm |-> table_model, page_size |-> page_size, page_index |-> page_index,
     spin |-> page_index_spin, maximum |-> page_index_max,
     lbl |-> lbl_pageinfo]

_update_paging_ui(P, fdf) ==
    LET total     == df_len(fdf)
        tot_pages == tot_pages_of(total, P.page_size)
        cur       == Min2(Max2(0, P.spin), tot_pages - 1)
        newmax    == Max2(0, tot_pages - 1)
    IN  [P EXCEPT !.maximum = newmax,
                  !.spin = spin_setValue(cur, newmax),
                  !.lbl = [cur |-> cur + 1, tot |-> tot_pages]]

refresh_page(P, fdf, size_spin) ==
    IF ~P.tm.ismodel THEN P
    ELSE
        LET total == IF fdf.isdf THEN Len(fdf.rows) ELSE Len(P.tm.df)
            pi0   == Max2(0, P.spin)
            wrap  == pi0 * size_spin >= total /\ total > 0
            pi1   == IF wrap THEN 0 ELSE pi0
            start == IF wrap THEN 0 ELSE pi0 * size_spin
            full  == IF fdf.isdf THEN fdf.rows ELSE P.tm.full_df
            P1    == [P EXCEPT !.page_size = size_spin,
                               !.page_index = pi1,
                               !.spin = IF wrap THEN spin_setValue(0, P.maximum)
                                        ELSE P.spin,
                               !.tm = page([P.tm EXCEPT !.full_df = full],
                                           start, size_spin)]
        IN  _update_paging_ui(_update_paging_ui(P1, fdf), fdf)

SetPaging(P) ==
    /\ table_model' = P.tm
    /\ page_size' = P.page_size
    /\ page_index' = P.page_index
    /\ page_index_spin' = P.spin
    /\ page_index_max' = P.maximum
    /\ lbl_pageinfo' = P.lbl

\* History of the handler that ran: the index asked of refresh_page (-1 when
\* refresh_page did not run) and whether the page shown before was the last.
OnLastPage ==
    page_index = tot_pages_of(df_len(filtered_df), page_size) - 1

NoWalk == [active |-> FALSE, acc |-> <<>>]

Ran(name, requested) ==
    op' = [name |-> name, requested |-> requested, preLast |-> OnLastPage,
           message |-> ""]

\* A handler that reports its message and then takes the page size and page
\* index from the spin boxes all the same.
RanMessageThenPaging(name, message) ==
    /\ op' = [name |-> name, requested |-> -1, preLast |-> OnLastPage,
              message |-> message]
    /\ walk' = NoWalk
    /\ page_size' = page_size_spin
    /\ page_index' = page_index_spin
    /\ UNCHANGED <<df, filtered_df, table_model, page_size_spin,
                   page_index_spin, page_index_max, lbl_pageinfo,
                   btn_sort_hits, hl, call>>

\* A handler that ends at its "Load a CSV first." message box: the message
\* is reported and nothing of the session is touched.
RanMessage(name, message) ==
    /\ op' = [name |-> name, requested |-> -1, preLast |-> OnLastPage,
              message |-> message]
    /\ walk' = NoWalk
    /\ UNCHANGED <<df, filtered_df, table_model, page_size_spin,
                   page_index_spin, page_index_max, page_size, page_index,
                   lbl_pageinfo, btn_sort_hits, hl, call>>

----------------------------------------------------------------------------
(* Handlers *)

set_dataframe(d) ==
    /\ df' = d
    /\ table_model' = PandasModel(d)
    /\ filtered_df' = d

load_csv(d) ==
    /\ set_dataframe(d)
    /\ filter_cfg' = [iscfg |-> TRUE, raw |-> filter_cfg.raw,
                      cutoff |-> filter_cfg.cutoff, case |-> filter_cfg.case,
                      cols |-> _guess_text_columns(d)]
    /\ Ran("load_csv", -1)
    /\ walk' = NoWalk
    /\ UNCHANGED <<page_size_spin, page_index_spin, page_index_max, page_size,
                   page_index, lbl_pageinfo, btn_sort_hits, hl, call>>

\* A pass that works on the result of the pass before it.
pass_input_previous == IF filtered_df.isdf THEN filtered_df ELSE df

\* df = self.df.copy(): every pass works on the loaded data set.
pass_input == df

\* The caller says what becomes of filter_cfg.
apply_filter_from_cfg(cfg) ==
    IF ~df.isdf THEN RanMessage("apply_filter_from_cfg", "warning")
    ELSE
        /\ \E scored \in {scored_frame(pass_input, cfg)} :
           \E order \in kept_orders_of(scored, cfg.cutoff, btn_sort_hits) :
             LET kept == drop([isdf |-> TRUE, cols |-> scored.cols,
                               rows |-> [i \in 1..Len(order) |->
                                           scored.rows[order[i]]]],
                              "__hits__")
                 P0   == [Paging EXCEPT !.tm = PandasModel(kept),
                                        !.page_size = page_size_spin,
                                        !.page_index = page_index_spin]
             IN  /\ filtered_df' = kept
                 /\ SetPaging(refresh_page(P0, kept, page_size_spin))
        /\ Ran("apply_filter_from_cfg", page_index_spin)
        /\ walk' = NoWalk
        /\ UNCHANGED <<df, page_size_spin, btn_sort_hits, hl, call>>

\* A call of apply_filter_from_cfg from outside the window's own handlers,
\* made while no data set is loaded.
call_apply_filter_from_cfg(cfg) ==
    /\ ~df.isdf
    /\ apply_filter_from_cfg(cfg)
    /\ UNCHANGED filter_cfg

apply_filter ==
    IF ~df.isdf
    THEN RanMessage("apply_filter", "warning") /\ UNCHANGED filter_cfg
    ELSE
        LET cfg == IF filter_cfg.iscfg THEN filter_cfg
                   ELSE [iscfg |-> TRUE, raw |-> <<>>, cutoff |-> 1,
                         case |-> FALSE, cols |-> _guess_text_columns(df)]
        IN  /\ filter_cfg' = cfg
            /\ apply_filter_from_cfg(cfg)

\* sp_cutoff.setValue: the value is brought into the range of the spin box.
sp_cutoff_setValue(v) == Min2(Max2(CutoffMin, v), CutoffMax)

\* A cutoff box that takes whatever number is typed.
sp_cutoff_typed_unchecked(shown, typed) == typed

\* A number typed into sp_cutoff: one outside the range of the spin box is
\* not taken, and the box keeps the value it showed.
sp_cutoff_typed(shown, typed) ==
    IF typed \in CutoffMin..CutoffMax THEN typed ELSE shown

\* FilterDialog opened on the configuration current, filled in as entry and
\* confirmed: the value the dialog returns.
FilterDialog_value(current, entry) ==
    [iscfg |-> TRUE, raw |-> entry.raw,
     cutoff |-> sp_cutoff_typed(sp_cutoff_setValue(current.cutoff),
                                entry.cutoff),
     case |-> entry.case, cols |-> entry.cols]

\* The dialog is filled in as entry and confirmed.
open_filter_dialog(entry) ==
    IF ~df.isdf
    THEN RanMessage("open_filter_dialog", "information")
         /\ UNCHANGED filter_cfg
    ELSE
        LET v == FilterDialog_value(filter_cfg, entry)
        IN  /\ filter_cfg' = v
            /\ apply_filter_from_cfg(v)

\* What a writer (to_csv, to_excel, to_parquet) was handed by the handler fn.
Written(fn, d) == [fn |-> fn, arg |-> d, done |-> TRUE, result |-> <<>>]

\* A handler that only reports or writes: nothing of the window changes.
Reported(name, message) ==
    /\ op' = [name |-> name, requested |-> -1, preLast |-> OnLastPage,
              message |-> message]
    /\ walk' = NoWalk
    /\ UNCHANGED <<df, filtered_df, table_model, page_size_spin,
                   page_index_spin, page_index_max, page_size, page_index,
                   lbl_pageinfo, btn_sort_hits, filter_cfg, hl>>

\* path is what the file dialog returns: "" when it is cancelled.
save_filtered_records(path) ==
    IF ~filtered_df.isdf \/ filtered_df.rows = <<>>
    THEN Reported("save_filtered_records", "No filtered data to save.")
         /\ UNCHANGED call
    ELSE IF path = ""
    THEN Reported("save_filtered_records", "") /\ UNCHANGED call
    ELSE /\ call' = Written("save_filtered_records",
                            drop(filtered_df, "__hits__"))
         /\ Reported("save_filtered_records", "Saved")

\* The frame of the table's model is the one filtered_df was set with.
export_filtered(path) ==
    LET df_to_save ==
            IF table_model.ismodel
            THEN [isdf |-> TRUE, cols |-> filtered_df.cols,
                  rows |-> table_model.full_df]
            ELSE IF filtered_df.isdf THEN filtered_df
            ELSE df
    IN  IF ~df_to_save.isdf \/ df_to_save.rows = <<>>
        THEN Reported("export_filtered", "Tidak ada data untuk diekspor.")
             /\ UNCHANGED call
        ELSE IF path = ""
        THEN Reported("export_filtered", "") /\ UNCHANGED call
        ELSE /\ call' = Written("export_filtered", df_to_save)
             /\ Reported("export_filtered", "Saved")

_resort_filtered_by_hits ==
    /\ ~(filtered_df.isdf /\ "__hits__" \in SeqRange(filtered_df.cols))
    /\ btn_sort_hits' = ~btn_sort_hits
    /\ Ran("_resort_filtered_by_hits", -1)
    /\ walk' = NoWalk
    /\ UNCHANGED <<df, filtered_df, table_model, page_size_spin,
                   page_index_spin, page_index_max, page_size, page_index,
                   lbl_pageinfo, filter_cfg, hl, call>>

\* The user edits the page-size spin box (no signal is connected to it).
edit_page_size(v) ==
    /\ v # page_size_spin
    /\ page_size_spin' = v
    /\ Ran("edit_page_size", -1)
    /\ walk' = NoWalk
    /\ UNCHANGED <<df, filtered_df, table_model, page_index_spin,
                   page_index_max, page_size, page_index, lbl_pageinfo,
                   btn_sort_hits, filter_cfg, hl, call>>

\* The user edits the page-index spin box (no signal is connected to it).
edit_page_index(v) ==
    /\ v # page_index_spin
    /\ v <= page_index_max
    /\ page_index_spin' = v
    /\ Ran("edit_page_index", -1)
    /\ walk' = NoWalk
    /\ UNCHANGED <<df, filtered_df, table_model, page_size_spin,
                   page_index_max, page_size, page_index, lbl_pageinfo,
                   btn_sort_hits, filter_cfg, hl, call>>

first_page ==
    LET P == refresh_page([Paging EXCEPT !.spin = spin_setValue(0, page_index_max)],
                          filtered_df, page_size_spin)
    IN  /\ SetPaging(P)
        /\ Ran("first_page", spin_setValue(0, page_index_max))
        /\ walk' = IF P.tm.ismodel THEN [active |-> TRUE, acc |-> P.tm.df]
                   ELSE NoWalk
        /\ UNCHANGED <<df, filtered_df, page_size_spin, btn_sort_hits,
                       filter_cfg, hl, call>>

last_page ==
    /\ filtered_df.isdf
    /\ LET ps        == Max2(1, page_size_spin)
           tot_pages == Max2(1, (Len(filtered_df.rows) + ps - 1) \div ps)
           target    == spin_setValue(tot_pages - 1, page_index_max)
       IN  /\ SetPaging(refresh_page([Paging EXCEPT !.spin = target],
                                     filtered_df, page_size_spin))
           /\ Ran("last_page", target)
    /\ walk' = NoWalk
    /\ UNCHANGED <<df, filtered_df, page_size_spin, btn_sort_hits, filter_cfg,
                   hl, call>>

next_page ==
    /\ page_index_spin < MaxTyped \/ page_index_spin >= page_index_max
    /\ LET target == spin_setValue(page_index_spin + 1, page_index_max)
           P      == refresh_page([Paging EXCEPT !.spin = target],
                                  filtered_df, page_size_spin)
       IN  /\ SetPaging(P)
           /\ Ran("next_page", target)
           /\ walk' = IF walk.active /\ ~OnLastPage
                      THEN [active |-> TRUE, acc |-> walk.acc \o P.tm.df]
                      ELSE NoWalk
    /\ UNCHANGED <<df, filtered_df, page_size_spin, btn_sort_hits, filter_cfg,
                   hl, call>>

prev_page ==
    /\ page_index_spin > 0
    /\ LET target == spin_setValue(page_index_spin - 1, page_index_max)
       IN  /\ SetPaging(refresh_page([Paging EXCEPT !.spin = target],
                                     filtered_df, page_size_spin))
           /\ Ran("prev_page", target)
    /\ walk' = NoWalk
    /\ UNCHANGED <<df, filtered_df, page_size_spin, btn_sort_hits, filter_cfg,
                   hl, call>>

----------------------------------------------------------------------------
(* The session: data sets and dialog values the user can supply *)

RECURSIVE repeat(_, _)
repeat(c, n) == IF n = 0 THEN <<>> ELSE <<c>> \o repeat(c, n - 1)

\* A data set of n records whose Title holds "a" once in record 1, twice in
\* record 2, and so on, so that the filter keeps a tail of it.
SessionDataset(n) ==
    [isdf |-> TRUE, cols |-> <<"Title">>,
     rows |-> [i \in 1..n |-> [idx |-> i - 1,
                               cells |-> [c \in {"Title"} |-> repeat("a", i)]]]]

SessionRowCounts == {0, MaxRows - PageSizeMin, MaxRows}

\* What the user fills the dialog with: the keyword "a" with a cutoff typed as
\* the least one, as a large one and as one below the range of the box, and
\* no keyword at all.
SessionCfgs ==
    {[iscfg |-> TRUE, raw |-> <<"a">>, cutoff |-> c, case |-> FALSE,
      cols |-> <<>>] : c \in {CutoffMin - 1, CutoffMin, MaxCutoff}}
    \cup {[iscfg |-> TRUE, raw |-> <<>>, cutoff |-> CutoffMin, case |-> FALSE,
           cols |-> <<>>]}

SessionPageSizes == {PageSizeMin, MaxPageSize}

\* No helper has been called.
NoCall == [fn |-> "", arg |-> <<>>, done |-> FALSE, result |-> <<>>]

HLIdle ==
    [text |-> <<>>, mapping |-> <<>>, case |-> FALSE, called |-> FALSE,
     html |-> <<>>, counts |-> <<>>, matches |-> <<>>]

Init ==
    /\ df = NoDF
    /\ filtered_df = NoDF
    /\ table_model = NoModel
    /\ page_size_spin = PageSizeDefault
    /\ page_index_spin = 0
    /\ page_index_max = PageIndexSpinMax
    /\ page_size = PageSizeDefault
    /\ page_index = 0
    /\ lbl_pageinfo = [cur |-> 1, tot |-> 1]
    /\ btn_sort_hits = TRUE
    /\ filter_cfg = NoCfg
    /\ op = [name |-> "init", requested |-> -1, preLast |-> TRUE,
            message |-> ""]
    /\ walk = NoWalk
    /\ hl = HLIdle
    /\ call = NoCall

Next ==
    \/ \E n \in SessionRowCounts : load_csv(SessionDataset(n))
    \/ \E v \in SessionCfgs : open_filter_dialog(v)
    \/ \E v \in SessionCfgs : call_apply_filter_from_cfg(v)
    \/ apply_filter
    \/ _resort_filtered_by_hits
    \/ \E v \in SessionPageSizes : edit_page_size(v)
    \/ \E v \in 0..MaxTyped : edit_page_index(v)
    \/ first_page
    \/ last_page
    \/ next_page
    \/ prev_page

Spec == Init /\ [][Next]_vars

----------------------------------------------------------------------------
(* The filter on its own: any small data set, any dialog value *)

FilterCells(c) ==
    CASE c = "Notes" -> {NaN, <<"a">>}
      [] c = "Title" -> {<<"a", "b">>, <<"A", "a">>}
      [] OTHER -> {NaN, <<"a", "b">>, <<"A", "a">>}

FilterColumns == {<<"Title", "Notes">>, <<"Memo">>}

FilterRows(cols) ==
    {f \in [SeqRange(cols) -> UNION {FilterCells(c) : c \in SeqRange(cols)}] :
        \A c \in SeqRange(cols) : f[c] \in FilterCells(c)}

FilterDatasets ==
    UNION {UNION {{[isdf |-> TRUE, cols |-> cols,
                    rows |-> [i \in 1..n |-> [idx |-> i - 1, cells |-> r[i]]]] :
                      r \in [1..n -> FilterRows(cols)]} :
                  n \in 0..MaxFilterRows} : cols \in FilterColumns}

FilterRaws ==
    {<<>>, <<"a">>, <<"A", ",", " ", "a", "b", ":", "r">>}

FilterCfgs ==
    {[iscfg |-> TRUE, raw |-> r, cutoff |-> c, case |-> cs, cols |-> tc] :
        r \in FilterRaws, c \in CutoffMin..(CutoffMin + 1), cs \in BOOLEAN,
        tc \in {<<>>, <<"Title", "Notes">>}}

InitFilter ==
    /\ df \in FilterDatasets
    /\ filtered_df = df
    /\ table_model = PandasModel(df)
    /\ page_size_spin = PageSizeDefault
    /\ page_index_spin = 0
    /\ page_index_max = PageIndexSpinMax
    /\ page_size = PageSizeDefault
    /\ page_index = 0
    /\ lbl_pageinfo = [cur |-> 1, tot |-> 1]
    /\ btn_sort_hits = TRUE
    /\ filter_cfg = [iscfg |-> TRUE, raw |-> <<>>, cutoff |-> 1,
                     case |-> FALSE, cols |-> _guess_text_columns(df)]
    /\ op = [name |-> "load_csv", requested |-> -1, preLast |-> TRUE,
            message |-> ""]
    /\ walk = NoWalk
    /\ hl = HLIdle
    /\ call = NoCall

NextFilter ==
    \/ \E v \in FilterCfgs : open_filter_dialog(v)
    \/ _resort_filtered_by_hits

SpecFilter == InitFilter /\ [][NextFilter]_vars

\* The filter with a keyword entered once and entered twice.
RepeatRaws == {<<"a">>, <<"a", ",", "a", ":", "r">>}

RepeatCfgs ==
    {[iscfg |-> TRUE, raw |-> r, cutoff |-> c, case |-> cs, cols |-> <<>>] :
        r \in RepeatRaws, c \in CutoffMin..(CutoffMin + 1), cs \in BOOLEAN}

NextRepeat ==
    \/ \E v \in RepeatCfgs : open_filter_dialog(v)
    \/ _resort_filtered_by_hits

SpecRepeat == InitFilter /\ [][NextRepeat]_vars

----------------------------------------------------------------------------
(* Saving and exporting: data sets with and without a column "__hits__" *)

MaxExportRows == 2

ExportColumns == {<<"Title">>, <<"Title", "__hits__">>}

ExportTitles == {<<"a">>, <<"b">>}

\* A record: its Title, and the number 7 in every other column.
ExportRows(cols) ==
    {[c \in SeqRange(cols) |-> IF c = "Title" THEN t ELSE 7] :
        t \in ExportTitles}

ExportDatasets ==
    UNION {UNION {{[isdf |-> TRUE, cols |-> cols,
                    rows |-> [i \in 1..n |-> [idx |-> i - 1, cells |-> r[i]]]] :
                      r \in [1..n -> ExportRows(cols)]} :
                  n \in 0..MaxExportRows} : cols \in ExportColumns}

ExportCfgs ==
    {[iscfg |-> TRUE, raw |-> <<"a">>, cutoff |-> CutoffMin, case |-> FALSE,
      cols |-> <<>>]}

ExportPaths == {"", "filtered.csv", "filtered.xlsx"}

InitExport ==
    /\ df = NoDF
    /\ filtered_df = NoDF
    /\ table_model = NoModel
    /\ page_size_spin = PageSizeDefault
    /\ page_index_spin = 0
    /\ page_index_max = PageIndexSpinMax
    /\ page_size = PageSizeDefault
    /\ page_index = 0
    /\ lbl_pageinfo = [cur |-> 1, tot |-> 1]
    /\ btn_sort_hits = TRUE
    /\ filter_cfg = NoCfg
    /\ op = [name |-> "init", requested |-> -1, preLast |-> TRUE,
            message |-> ""]
    /\ walk = NoWalk
    /\ hl = HLIdle
    /\ call = NoCall

NextExport ==
    \/ \E d \in ExportDatasets : load_csv(d)
    \/ \E v \in ExportCfgs : open_filter_dialog(v)
    \/ \E path \in ExportPaths : save_filtered_records(path)
    \/ \E path \in ExportPaths : export_filtered(path)

SpecExport == InitExport /\ [][NextExport]_vars

----------------------------------------------------------------------------
(* Claims about the filter and the paginator *)

\* The number of occurrences of w in s, counted without the scan of
\* str.count: the most start positions of w in s that can be chosen so that
\* no two chosen occurrences share a character.
Occurrences(s, w) ==
    LET starts == {i \in 1..(Len(s) + 1) : MatchAt(s, w, i)}
        free   == {P \in SUBSET starts :
                     \A i \in P : \A j \in P :
                        i < j => i + Len(w) <= j}
    IN  CHOOSE n \in 0..(Len(s) + 1) :
            /\ \E P \in free : Cardinality(P) = n
            /\ \A P \in free : Cardinality(P) <= n

WordSum(s, words, case) ==
    LET occ(i) == IF case THEN Occurrences(s, words[i])
                  ELSE Occurrences(lower(s), lower(words[i]))
        sum[i \in 0..Len(words)] == IF i = 0 THEN 0 ELSE sum[i - 1] + occ(i)
    IN  sum[Len(words)]

HitCount(d, i, cfg) ==
    LET words  == _parse_keyword_mapping(cfg.raw).words
        target == resolve_target_cols(d, cfg)
        cell(j) == d.rows[i].cells[target[j]]
        sum[j \in 0..Len(target)] ==
            IF j = 0 THEN 0
            ELSE sum[j - 1] + (IF isna(cell(j)) THEN 0
                               ELSE WordSum(cell(j), words, cfg.case))
    IN  sum[Len(target)]

\* C1: after a filter pass the filtered result set holds exactly the records
\* of the data set whose hit count, summed over the target columns and the
\* keywords, is at least the cutoff, each of them once.
C1_FilterKeepsExactlyHits ==
    op.name = "apply_filter_from_cfg" =>
        /\ SeqRange(filtered_df.rows) =
               {df.rows[i] : i \in {j \in 1..Len(df.rows) :
                                       HitCount(df, j, filter_cfg) >= filter_cfg.cutoff}}
        /\ Cardinality(SeqRange(filtered_df.rows)) = Len(filtered_df.rows)

\* C1 witness: a pass that kept a record whose hit count equals the cutoff
\* and dropped another record that has hits.
C1_Witness ==
    /\ op.name = "apply_filter_from_cfg"
    /\ \E i \in 1..Len(df.rows) :
          /\ HitCount(df, i, filter_cfg) = filter_cfg.cutoff
          /\ df.rows[i] \in SeqRange(filtered_df.rows)
    /\ \E i \in 1..Len(df.rows) :
          /\ HitCount(df, i, filter_cfg) > 0
          /\ df.rows[i] \notin SeqRange(filtered_df.rows)

\* The hit count of the k-th record of the filtered result set.
FilteredHits(k) == HitCount(df, filtered_df.rows[k].idx + 1, filter_cfg)

\* C11: after a filter pass with sort-by-hits enabled the filtered result set
\* is in descending order of hit count, records of equal hit count in the
\* order of the data set; with sort-by-hits disabled it is in the order of
\* the data set.
C11_SortedByHitsStable ==
    op.name = "apply_filter_from_cfg" =>
        \A j \in 1..Len(filtered_df.rows) : \A k \in 1..Len(filtered_df.rows) :
            j < k =>
                IF btn_sort_hits
                THEN \/ FilteredHits(j) > FilteredHits(k)
                     \/ /\ FilteredHits(j) = FilteredHits(k)
                        /\ filtered_df.rows[j].idx < filtered_df.rows[k].idx
                ELSE filtered_df.rows[j].idx < filtered_df.rows[k].idx

\* C22: after every filter pass, however many came before, the filtered
\* result set is what one pass over the loaded data set gives with the
\* configuration and the sort setting of now: the records of the data set
\* with at least cutoff hits, each once and as loaded, in descending order of
\* hits when the toggle is checked and in data set order when it is not.
C22_PassSupersedesEarlierPasses ==
    op.name = "apply_filter_from_cfg" =>
        LET keep == {i \in 1..Len(df.rows) :
                        HitCount(df, i, filter_cfg) >= filter_cfg.cutoff}
            n    == Len(filtered_df.rows)
        IN  /\ filtered_df.cols = df.cols
            /\ n = Cardinality(keep)
            /\ {filtered_df.rows[k].idx + 1 : k \in 1..n} = keep
            /\ \A k \in 1..n :
                  filtered_df.rows[k] = df.rows[filtered_df.rows[k].idx + 1]
            /\ \A k \in 1..(n - 1) :
                  IF btn_sort_hits
                  THEN FilteredHits(k) >= FilteredHits(k + 1)
                  ELSE filtered_df.rows[k].idx < filtered_df.rows[k + 1].idx

\* C22 witness: a pass made after the toggle was unchecked kept every record
\* of a data set of which no record has an empty hit count.
C22_Witness ==
    /\ op.name = "apply_filter_from_cfg"
    /\ ~btn_sort_hits
    /\ Len(df.rows) >= 2
    /\ Len(filtered_df.rows) = Len(df.rows)

\* C23: when the sort toggle has changed after a filter pass, the filtered
\* result set is left ordered by hit count as the toggle now says: descending
\* when it is checked, ascending when it is not.
C23_ResortFollowsToggle ==
    (op.name = "_resort_filtered_by_hits" /\ df.isdf) =>
        \A k \in 1..(Len(filtered_df.rows) - 1) :
            IF btn_sort_hits
            THEN FilteredHits(k) >= FilteredHits(k + 1)
            ELSE FilteredHits(k) <= FilteredHits(k + 1)

\* C15: a filter pass asked for, by apply_filter or apply_filter_from_cfg, while
\* no data set is loaded ends with the warning reported and leaves the
\* filtered result set, the page size, the page index and the page shown as
\* they were.
C15_NoDatasetFilterRejected ==
    [][(/\ ~df.isdf
        /\ op' # op
        /\ op'.name \in {"apply_filter", "apply_filter_from_cfg"})
          => /\ op'.message = "warning"
             /\ filtered_df' = filtered_df
             /\ page_size' = page_size
             /\ page_index' = page_index
             /\ table_model' = table_model]_vars

\* C15 witness: apply_filter_from_cfg was refused for want of a data set,
\* after both spin boxes had been edited.
C15_Witness ==
    /\ ~df.isdf
    /\ op.name = "apply_filter_from_cfg"
    /\ op.message = "warning"
    /\ page_size_spin # page_size
    /\ page_index_spin # page_index

\* C16: through every sequence of loads, confirmed filter dialogs and
\* apply_filter calls, the configuration the window holds, which is the one
\* each filter pass is run with, has a cutoff of at least 1.
C16_CutoffAtLeastOne ==
    filter_cfg.iscfg => filter_cfg.cutoff >= CutoffMin

\* C16 witness: a pass ran with a configuration that a confirmed dialog had
\* built with a cutoff above the least one, and dropped records.
C16_Witness ==
    /\ df.isdf
    /\ op.name = "apply_filter_from_cfg"
    /\ filter_cfg.iscfg
    /\ filter_cfg.cutoff > CutoffMin
    /\ Len(filtered_df.rows) < Len(df.rows)

LastPageIndex == tot_pages_of(df_len(filtered_df), page_size) - 1

\* C2: the session page index lies in [0, ceil(total/pageSize)-1], and is 0
\* when there are no records, after every filter pass, load and navigation.
C2_PageIndexInRange ==
    /\ page_index >= 0
    /\ page_index <= LastPageIndex

\* C28: after a handler that ran refresh_page, the session page index is the
\* one the page-index spin box and the page label show, and running
\* refresh_page once more would change nothing.
C28_RefreshAgreesAndIsIdempotent ==
    (table_model.ismodel /\ op.requested # -1) =>
        /\ page_index = page_index_spin
        /\ page_index = lbl_pageinfo.cur - 1
        /\ refresh_page(Paging, filtered_df, page_size_spin) = Paging

\* C3: when the page index requested of the paginator lies beyond the last
\* page, the page index becomes that of the last page.
C3_ClampsToLastPage ==
    (table_model.ismodel /\ op.requested > LastPageIndex) =>
        page_index = LastPageIndex

\* C4: next_page on the last page leaves the page index on the last page.
C4_NextOnLastPageStays ==
    (table_model.ismodel /\ op.name = "next_page" /\ op.preLast) =>
        page_index = LastPageIndex

\* C5: from first_page, by next_page up to the last page, the pages seen, put
\* end to end, are the filtered result set.
C5_PagesConcatenate ==
    (walk.active /\ page_index = LastPageIndex) =>
        walk.acc = filtered_df.rows

\* C5 witness: a walk of three pages that has reached the last page.
C5_Witness ==
    /\ walk.active
    /\ op.name = "next_page"
    /\ page_index = LastPageIndex
    /\ page_index = 2
    /\ Len(walk.acc) > 2 * page_size

\* C6: with a data set loaded, the records shown are those of the filtered
\* result set from pageIndex*pageSize on, pageSize of them at most.
C6_PageIsWindow ==
    df.isdf =>
        /\ table_model.df =
               iloc(filtered_df.rows, page_index * page_size, page_size)
        /\ Len(table_model.df) <= page_size

\* C7: the page count of the page label, and the page last_page goes to, are
\* those of ceil(totalRecords/pageSize), 1 page when there are no records.
C7_TotalPagesIsCeil ==
    /\ lbl_pageinfo.tot = tot_pages_of(df_len(filtered_df), page_size)
    /\ op.name = "last_page" =>
          op.requested = tot_pages_of(df_len(filtered_df), page_size) - 1

----------------------------------------------------------------------------
(* The highlight renderer on its own: any short text, any few keywords *)

HLAlphabet == {"a", "A", "b", "&"}

\* Texts that carry markup of their own.
HLMarkupTexts ==
    {<<"<", "b", ">">>, <<"<", "b", ">", "a", "<", "/", "b", ">">>}

HLTexts == UNION {[1..n -> HLAlphabet] : n \in 0..MaxTextLen} \cup HLMarkupTexts

HLKeys == {<<"a">>, <<"a", "a">>, <<"a", "b">>, <<"A">>}

HLColor(i) == IF i = 1 THEN DefaultColor ELSE <<"r">>

HLMappings ==
    UNION {{[i \in 1..n |-> [k |-> ks[i], c |-> HLColor(i)]] :
              ks \in {f \in [1..n -> HLKeys] :
                        \A i \in 1..n : \A j \in 1..n : i # j => f[i] # f[j]}} :
           n \in 0..MaxKeys}

highlight ==
    /\ ~hl.called
    /\ LET r == _highlight_text(hl.text, hl.mapping, hl.case)
       IN  hl' = [hl EXCEPT !.called = TRUE, !.html = r.html,
                            !.counts = r.counts, !.matches = r.matches]
    /\ UNCHANGED <<df, filtered_df, table_model, page_size_spin,
                   page_index_spin, page_index_max, page_size, page_index,
                   lbl_pageinfo, btn_sort_hits, filter_cfg, op, walk, call>>

InitHL ==
    /\ df = NoDF
    /\ filtered_df = NoDF
    /\ table_model = NoModel
    /\ page_size_spin = PageSizeDefault
    /\ page_index_spin = 0
    /\ page_index_max = PageIndexSpinMax
    /\ page_size = PageSizeDefault
    /\ page_index = 0
    /\ lbl_pageinfo = [cur |-> 1, tot |-> 1]
    /\ btn_sort_hits = TRUE
    /\ filter_cfg = NoCfg
    /\ op = [name |-> "init", requested |-> -1, preLast |-> TRUE,
            message |-> ""]
    /\ walk = NoWalk
    /\ \E t \in HLTexts : \E m \in HLMappings : \E cs \in BOOLEAN :
          hl = [HLIdle EXCEPT !.text = t, !.mapping = m, !.case = cs]
    /\ call = NoCall

NextHL == highlight

SpecHL == InitHL /\ [][NextHL]_vars

----------------------------------------------------------------------------
(* Claims about the highlight renderer *)

SumCounts(counts) ==
    LET sum[i \in 0..Len(counts)] ==
            IF i = 0 THEN 0 ELSE sum[i - 1] + counts[i].n
    IN  sum[Len(counts)]

\* C8: the per-keyword counts of the renderer add up to the hit count the
\* scorer gives the same text for the same keywords and case flag.
C8_CountsAddUpToHits ==
    hl.called =>
        SumCounts(hl.counts) =
            count_hits_cell(hl.text, mapping_keys(hl.mapping), hl.case)

\* A tag runs from a "<" outside any tag to the next ">".
RECURSIVE tag_starts(_, _)
tag_starts(s, i) ==
    LET lt == find_char(s, "<", i)
        gt == IF lt = 0 THEN 0 ELSE find_char(s, ">", lt + 1)
    IN  IF lt = 0 \/ gt = 0 THEN {}
        ELSE {<<lt, gt>>} \cup tag_starts(s, gt + 1)

strip_tags(s) ==
    LET tags == tag_starts(s, 1)
        piece(i) ==
            IF \E t \in tags : t[1] <= i /\ i <= t[2] THEN <<>> ELSE <<s[i]>>
    IN  join([i \in 1..Len(s) |-> piece(i)])

\* C9: the markup of the renderer with its tags removed is the HTML-escaped
\* text.
C9_StripTagsGivesEscapedText ==
    hl.called => strip_tags(hl.html) = html_escape(hl.text)

HLKeySet == SeqRange(mapping_keys(hl.mapping))

KeysAt(p) == {key \in HLKeySet : re_match_at(hl.text, key, p, hl.case)}

ProperSubstring(k1, k2) ==
    LET short == IF hl.case THEN k1 ELSE lower(k1)
        long  == IF hl.case THEN k2 ELSE lower(k2)
    IN  /\ Len(short) < Len(long)
        /\ \E j \in 1..Len(long) : MatchAt(long, short, j)

MatchesAt(key, p) == re_match_at(hl.text, key, p, hl.case)

NestedAt(p) ==
    \E k1 \in HLKeySet : \E k2 \in HLKeySet :
        MatchesAt(k1, p) /\ MatchesAt(k2, p) /\ ProperSubstring(k1, k2)

\* The match made at p is of the longest keyword that matches there, it is
\* counted under that keyword and wrapped in that keyword's color.
LongestWinsAt(p) ==
    \E i \in 1..Len(hl.matches) :
        LET m == hl.matches[i]
        IN  /\ m.pos = p
            /\ \A k \in KeysAt(p) : Len(k) <= Len(m.word)
            /\ m.key \in KeysAt(p)
            /\ Len(m.key) = Len(m.word)
            /\ \E j \in 1..Len(hl.counts) :
                  hl.counts[j].k = m.key /\ hl.counts[j].n >= 1

InsideEarlierMatch(p) ==
    \E i \in 1..Len(hl.matches) :
        hl.matches[i].pos < p /\ p < hl.matches[i].pos + Len(hl.matches[i].word)

\* C10 as stated: wherever two keywords match at the same position and one
\* is a proper substring of the other, the longer one is highlighted and
\* counted there.
C10_LongerKeywordEverywhere ==
    hl.called =>
        \A p \in 1..Len(hl.text) : NestedAt(p) => LongestWinsAt(p)

\* C10: wherever two keywords match at the same position, one a proper
\* substring of the other, and that position does not lie inside a match
\* that began earlier, the longest keyword matching there is highlighted and
\* counted, whatever the order the keywords were entered in.
C10_LongerKeywordWhereScanned ==
    hl.called =>
        \A p \in 1..Len(hl.text) :
            (NestedAt(p) /\ ~InsideEarlierMatch(p)) => LongestWinsAt(p)

\* C10 witness: the shorter keyword was entered first, both match at a
\* scanned position, and the longer one was matched.
C10_Witness ==
    /\ hl.called
    /\ Len(hl.mapping) >= 2
    /\ Len(hl.mapping[1].k) < Len(hl.mapping[2].k)
    /\ \E p \in 1..Len(hl.text) :
          /\ {hl.mapping[1].k, hl.mapping[2].k} \subseteq KeysAt(p)
          /\ ProperSubstring(hl.mapping[1].k, hl.mapping[2].k)
          /\ ~InsideEarlierMatch(p)
          /\ LongestWinsAt(p)

----------------------------------------------------------------------------
(* The helpers on their own: one call, its argument drawn from a small set *)

\* Tokens of a raw keyword query, put between commas.
ParseTokens ==
    {<<>>, <<" ">>, <<"a">>, <<" ", "b", " ">>, <<"a", ":", "r">>,
     <<"a", ":", "g">>, <<":", "r">>, <<" ", "a", " ", ":", " ", "g">>,
     <<"b", ":", "r", ":", "g">>}

RawOf(tokens) ==
    join([i \in 1..Len(tokens) |->
             IF i = 1 THEN tokens[i] ELSE <<",">> \o tokens[i]])

ParseRaws ==
    UNION {{RawOf(t) : t \in [1..n -> ParseTokens]} : n \in 0..MaxTokens}

\* Column names and candidates given to _get_col.
GetColNames ==
    {<<"a">>, <<"A">>, <<"a", "b">>, <<"A", "b">>, <<"b", "a", "b">>,
     <<"b", "b">>}

GetColCands ==
    {<<"a">>, <<"A", "B">>, <<"a", "b">>, <<"b">>, <<"a", "b", "b">>}

DistinctSeqs(S, n) ==
    {f \in [1..n -> S] : \A i \in 1..n : \A j \in 1..n : i # j => f[i] # f[j]}

GetColFrames ==
    {NoDF} \cup
    UNION {{[isdf |-> TRUE, cols |-> c, rows |-> <<>>] :
               c \in DistinctSeqs(GetColNames, n)} : n \in 0..MaxCols}

GetColArgs ==
    {[d |-> d, cands |-> c] :
        d \in GetColFrames,
        c \in UNION {[1..n -> GetColCands] : n \in 0..MaxCands}}

\* Affiliation texts: up to MaxAffils segments put between semicolons.
AffilSegments ==
    {<<>>, <<"u", ",", "J", "p", "n">>, <<"C", "h", "n">>,
     <<" ", "J", "p", "n", " ">>, <<"v", ",", " ", "U", "S">>,
     <<"J", "p", "n", ",">>}

SemicolonJoined(parts) == join_with(parts, <<";">>)

AffilTexts ==
    UNION {{SemicolonJoined(t) : t \in [1..n -> AffilSegments]} :
              n \in 0..MaxAffils}

\* Country strings: up to MaxCountries entries put between semicolons.
CountryEntries ==
    {<<>>, <<"J", "p", "n">>, <<" ", "J", "p", "n">>, <<"C", "h", "n">>}

CountryStrings ==
    UNION {{SemicolonJoined(t) : t \in [1..n -> CountryEntries]} :
              n \in 0..MaxCountries}

\* Data sets with an affiliation column, with or without a country column.
AffiliationsCol == AFFIL_COL_CANDIDATES[2]

CountryCol == COUNTRY_COL_CANDIDATES[1]

CollabAffils ==
    {NaN, <<"u", ",", "J", "p", "n">>,
     <<"u", ",", "J", "p", "n", ";", "C", "h", "n">>,
     <<"C", "h", "n", ";", "u", ",", "J", "p", "n">>,
     <<"v", ",", " ", "U", "S">>}

CollabCountries == {NaN, <<"J", "p", "n">>}

CollabRows(cols) ==
    {[c \in SeqRange(cols) |-> IF c = AffiliationsCol THEN a ELSE k] :
        a \in CollabAffils,
        k \in IF Len(cols) = 1 THEN {NaN} ELSE CollabCountries}

CollabFrames ==
    UNION {UNION {{[isdf |-> TRUE, cols |-> cols,
                    rows |-> [i \in 1..n |-> [idx |-> i - 1, cells |-> r[i]]]] :
                      r \in [1..n -> CollabRows(cols)]} :
                  n \in 0..MaxCollabRows} :
           cols \in {<<AffiliationsCol>>, <<AffiliationsCol, CountryCol>>}}

\* Data sets of TopCountries countries or about as many: one record for
\* each country, the countries in falling alphabetical order, and one more
\* record for one of them.
CountryName(i) == <<"Z", "z", CodePoints[3 + i]>>

CollabWideFrames ==
    {[isdf |-> TRUE, cols |-> <<AffiliationsCol>>,
      rows |-> [i \in 1..(n + 1) |->
                  [idx   |-> i - 1,
                   cells |-> [c \in {AffiliationsCol} |->
                                IF i <= n THEN CountryName(n + 1 - i)
                                ELSE CountryName(k)]]]] :
        n \in (TopCountries - 1)..(TopCountries + MaxExtraCountries),
        k \in 1..(TopCountries + MaxExtraCountries)}

\* Affiliation texts for the institution types: up to MaxInstSegs segments
\* put between semicolons. Their capital letters are A and B, the two that
\* lower_char knows.
InstSegments ==
    {<<>>,
     <<"A", " ", "u", "n", "i", "v">>,
     <<" ", "a", " ", "u", "n", "i", "v", " ">>,
     <<"A", "c", "m", "e", " ", "c", "o", "r", "p">>,
     <<"B", "u", "r", "e", "a", "u">>,
     <<"A", "c", "a", "d", "e", "m", "y">>,
     <<"t", "e", "c", "h", " ", "u", "n", "i", "v">>,
     <<"x">>}

InstTexts ==
    UNION {{SemicolonJoined(t) : t \in [1..n -> InstSegments]} :
              n \in 0..MaxInstSegs}

InstCells ==
    {NaN,
     <<"A", " ", "u", "n", "i", "v">>,
     <<"x">>,
     <<"A", "c", "m", "e", " ", "c", "o", "r", "p", ";", "A", " ", "u", "n", "i", "v">>}

InstFrames ==
    UNION {{[isdf |-> TRUE, cols |-> <<AffiliationsCol>>,
             rows |-> [i \in 1..n |->
                         [idx |-> i - 1,
                          cells |-> [c \in {AffiliationsCol} |-> r[i]]]]] :
               r \in [1..n -> InstCells]} : n \in 0..MaxInstRows}

HelperCalls ==
    {[NoCall EXCEPT !.fn = "_parse_keyword_mapping", !.arg = r] :
        r \in ParseRaws}
    \cup {[NoCall EXCEPT !.fn = "_get_col", !.arg = a] : a \in GetColArgs}
    \cup {[NoCall EXCEPT !.fn = "_extract_countries_from_affil", !.arg = t] :
             t \in AffilTexts}
    \cup {[NoCall EXCEPT !.fn = "_detect_collab_scope", !.arg = t] :
             t \in CountryStrings}
    \cup {[NoCall EXCEPT !.fn = "_build_collab_scope_table", !.arg = d] :
             d \in CollabFrames \cup CollabWideFrames}
    \cup {[NoCall EXCEPT !.fn = "_classify_institution_types", !.arg = t] :
             t \in InstTexts}
    \cup {[NoCall EXCEPT !.fn = "_categorize_institution_combination",
                         !.arg = t] : t \in InstTexts}
    \cup {[NoCall EXCEPT !.fn = "plot_institution_collab_types", !.arg = d] :
             d \in InstFrames}

call_parse_keyword_mapping ==
    /\ call.fn = "_parse_keyword_mapping"
    /\ ~call.done
    /\ call' = [call EXCEPT !.done = TRUE,
                            !.result = _parse_keyword_mapping(call.arg)]
    /\ UNCHANGED <<df, filtered_df, table_model, page_size_spin,
                   page_index_spin, page_index_max, page_size, page_index,
                   lbl_pageinfo, btn_sort_hits, filter_cfg, op, walk, hl>>

call_get_col ==
    /\ call.fn = "_get_col"
    /\ ~call.done
    /\ call' = [call EXCEPT !.done = TRUE,
                            !.result = _get_col(call.arg.d, call.arg.cands)]
    /\ UNCHANGED <<df, filtered_df, table_model, page_size_spin,
                   page_index_spin, page_index_max, page_size, page_index,
                   lbl_pageinfo, btn_sort_hits, filter_cfg, op, walk, hl>>

call_extract_countries_from_affil ==
    /\ call.fn = "_extract_countries_from_affil"
    /\ ~call.done
    /\ call' = [call EXCEPT !.done = TRUE,
                            !.result = _extract_countries_from_affil(call.arg)]
    /\ UNCHANGED <<df, filtered_df, table_model, page_size_spin,
                   page_index_spin, page_index_max, page_size, page_index,
                   lbl_pageinfo, btn_sort_hits, filter_cfg, op, walk, hl>>

call_detect_collab_scope ==
    /\ call.fn = "_detect_collab_scope"
    /\ ~call.done
    /\ call' = [call EXCEPT !.done = TRUE,
                            !.result = _detect_collab_scope(call.arg)]
    /\ UNCHANGED <<df, filtered_df, table_model, page_size_spin,
                   page_index_spin, page_index_max, page_size, page_index,
                   lbl_pageinfo, btn_sort_hits, filter_cfg, op, walk, hl>>

call_build_collab_scope_table ==
    /\ call.fn = "_build_collab_scope_table"
    /\ ~call.done
    /\ call' = [call EXCEPT !.done = TRUE,
                            !.result = _build_collab_scope_table(call.arg)]
    /\ UNCHANGED <<df, filtered_df, table_model, page_size_spin,
                   page_index_spin, page_index_max, page_size, page_index,
                   lbl_pageinfo, btn_sort_hits, filter_cfg, op, walk, hl>>

call_classify_institution_types ==
    /\ call.fn = "_classify_institution_types"
    /\ ~call.done
    /\ call' = [call EXCEPT !.done = TRUE,
                            !.result = _classify_institution_types(call.arg)]
    /\ UNCHANGED <<df, filtered_df, table_model, page_size_spin,
                   page_index_spin, page_index_max, page_size, page_index,
                   lbl_pageinfo, btn_sort_hits, filter_cfg, op, walk, hl>>

call_categorize_institution_combination ==
    /\ call.fn = "_categorize_institution_combination"
    /\ ~call.done
    /\ call' = [call EXCEPT !.done = TRUE,
                            !.result = 
                              _categorize_institution_combination(call.arg)]
    /\ UNCHANGED <<df, filtered_df, table_model, page_size_spin,
                   page_index_spin, page_index_max, page_size, page_index,
                   lbl_pageinfo, btn_sort_hits, filter_cfg, op, walk, hl>>

call_plot_institution_collab_types ==
    /\ call.fn = "plot_institution_collab_types"
    /\ ~call.done
    /\ call' = [call EXCEPT !.done = TRUE,
                            !.result = plot_institution_collab_types(call.arg)]
    /\ UNCHANGED <<df, filtered_df, table_model, page_size_spin,
                   page_index_spin, page_index_max, page_size, page_index,
                   lbl_pageinfo, btn_sort_hits, filter_cfg, op, walk, hl>>

InitHelpers ==
    /\ df = NoDF
    /\ filtered_df = NoDF
    /\ table_model = NoModel
    /\ page_size_spin = PageSizeDefault
    /\ page_index_spin = 0
    /\ page_index_max = PageIndexSpinMax
    /\ page_size = PageSizeDefault
    /\ page_index = 0
    /\ lbl_pageinfo = [cur |-> 1, tot |-> 1]
    /\ btn_sort_hits = TRUE
    /\ filter_cfg = NoCfg
    /\ op = [name |-> "init", requested |-> -1, preLast |-> TRUE,
            message |-> ""]
    /\ walk = NoWalk
    /\ hl = HLIdle
    /\ call \in HelperCalls

NextHelpers ==
    \/ call_parse_keyword_mapping
    \/ call_get_col
    \/ call_extract_countries_from_affil
    \/ call_detect_collab_scope
    \/ call_build_collab_scope_table
    \/ call_classify_institution_types
    \/ call_categorize_institution_combination
    \/ call_plot_institution_collab_types

SpecHelpers == InitHelpers /\ [][NextHelpers]_vars

----------------------------------------------------------------------------
(* Claims about the helpers *)

Parsed == call.fn = "_parse_keyword_mapping" /\ call.done

Trimmed(k) == k # <<>> /\ k[1] # " " /\ k[Len(k)] # " "

\* The definitions a raw query makes, in order: per token that is not blank,
\* the keyword and the color it is given.
Definitions(raw) ==
    LET toks == split(raw, ",")
        def(i) ==
            LET t == strip(toks[i])
                p == find_char(t, ":", 1)
            IN  IF t = <<>> THEN <<>>
                ELSE IF p = 0 THEN <<[k |-> t, c |-> DefaultColor]>>
                ELSE <<[k |-> strip(SubSeq(t, 1, p - 1)),
                        c |-> strip(SubSeq(t, p + 1, Len(t)))]>>
    IN  IF raw = <<>> THEN <<>> ELSE join([i \in 1..Len(toks) |-> def(i)])

\* C12: every keyword the parser produces, in the mapping and in the word
\* list, is not empty and has no blank at either end, and a keyword defined
\* more than once has the color of its last definition.
C12_KeywordsTrimmedLastColor ==
    Parsed =>
        LET mapping == call.result.mapping
            words   == call.result.words
            defs    == Definitions(call.arg)
        IN  /\ \A i \in 1..Len(mapping) : Trimmed(mapping[i].k)
            /\ \A i \in 1..Len(words) : Trimmed(words[i])
            /\ \A i \in 1..Len(mapping) : \A j \in 1..Len(defs) :
                  (/\ defs[j].k = mapping[i].k
                   /\ \A h \in (j + 1)..Len(defs) : defs[h].k # mapping[i].k)
                      => mapping[i].c = defs[j].c

Resolved == call.fn = "_get_col" /\ call.done /\ call.arg.d.isdf

\* The candidates that some column equals, case aside.
ExactCands ==
    {j \in 1..Len(call.arg.cands) :
        \E i \in 1..Len(call.arg.d.cols) :
            lower(call.arg.d.cols[i]) = lower(call.arg.cands[j])}

\* C13: when some column equals a candidate, case aside, the column returned
\* equals, case aside, the earliest such candidate, whatever columns before
\* it contain a candidate.
C13_ExactMatchPreferred ==
    (Resolved /\ ExactCands # {}) =>
        LET j == CHOOSE e \in ExactCands : \A f \in ExactCands : e <= f
        IN  /\ call.result \in SeqRange(call.arg.d.cols)
            /\ lower(call.result) = lower(call.arg.cands[j])

\* C13 witness: the column returned equals the second candidate, and the
\* column before it contains a candidate without being equal to one.
C13_Witness ==
    /\ Resolved
    /\ ExactCands = {2}
    /\ Len(call.arg.d.cols) = 2
    /\ call.result = call.arg.d.cols[2]
    /\ lower(call.result) # call.result
    /\ contains(lower(call.arg.d.cols[1]), lower(call.arg.cands[1]))

\* A column and a candidate are substring-related when, case aside, one is
\* contained in the other.
Related(col, cand) ==
    \/ contains(lower(col), lower(cand))
    \/ contains(lower(cand), lower(col))

RelatedCols(j) ==
    {i \in 1..Len(call.arg.d.cols) :
        Related(call.arg.d.cols[i], call.arg.cands[j])}

\* C14: when no candidate matches exactly, the column returned is the first
\* column, in data set order, that is substring-related to the earliest
\* candidate that has a substring-related column at all.
C14_FallbackByCandidateOrder ==
    (Resolved /\ ExactCands = {}) =>
        LET having == {j \in 1..Len(call.arg.cands) : RelatedCols(j) # {}}
        IN  IF having = {} THEN call.result = None
            ELSE LET j == CHOOSE e \in having : \A f \in having : e <= f
                     i == CHOOSE e \in RelatedCols(j) :
                              \A f \in RelatedCols(j) : e <= f
                 IN  call.result = call.arg.d.cols[i]

\* The countries the specification takes from an affiliation text: the text
\* after the last comma of each segment, trimmed, when it has three
\* characters or more.
TrailingTokens(text) ==
    LET segs == split(text, ";")
        tok(i) == LET parts == split(segs[i], ",")
                  IN  strip(parts[Len(parts)])
    IN  {t \in {tok(i) : i \in 1..Len(segs)} : Len(t) >= 3}

Extracted == call.fn = "_extract_countries_from_affil" /\ call.done

\* C19: _extract_countries_from_affil returns the distinct trailing tokens of
\* the segments, those of three characters or more, joined with "; ", and
\* "Unknown" when there is none.
C19_TrailingTokensOrUnknown ==
    Extracted =>
        IF TrailingTokens(call.arg) = {} THEN call.result = Unknown
        ELSE \E order \in PermSeqs(TrailingTokens(call.arg)) :
                call.result = join_with(order, <<";", " ">>)

\* The distinct countries a country string lists.
DistinctCountries(country_string) ==
    LET entries == split(country_string, ";")
    IN  {strip(entries[i]) : i \in 1..Len(entries)} \ {<<>>}

Detected == call.fn = "_detect_collab_scope" /\ call.done

\* C20: _detect_collab_scope returns International for more than one distinct
\* country, Domestic for exactly one, however often it is repeated, and
\* Unknown for none.
C20_ScopeByDistinctCountries ==
    Detected =>
        LET n == Cardinality(DistinctCountries(call.arg))
        IN  call.result = IF n > 1 THEN "International"
                          ELSE IF n = 1 THEN "Domestic"
                          ELSE "Unknown"

Built ==
    /\ call.fn = "_build_collab_scope_table"
    /\ call.done
    /\ call.result.istable

\* C18: for every country the collaboration table lists, Domestic plus
\* International is the document count of that country in the counts made
\* from _get_country_series on the same data set.
C18_ScopeCountsAddUpToCountryCount ==
    Built =>
        LET counts == value_counts(_get_country_series(call.arg))
            table  == call.result.counts
        IN  \A c \in DOMAIN table :
                /\ c \in DOMAIN counts
                /\ table[c].Domestic + table[c].International = counts[c]

\* The type set of a record with Unknown removed.
KnownTypes(text) == _classify_institution_types(text) \ {"Unknown"}

Categorized == call.fn = "_categorize_institution_combination" /\ call.done

\* C21: a record whose known types are one of Research, Industry or
\* Government alone gets that type's category, one whose known types are
\* Academic and one other gets "Academic and" that other, and "Mixed
\* Collaboration" is given only to three or more types or to two types
\* without Academic.
C21_CategoryByTypeSet ==
    Categorized =>
        LET types == KnownTypes(call.arg)
        IN  /\ types = {"Research"} => call.result = "Research only"
            /\ types = {"Industry"} => call.result = "Industry only"
            /\ types = {"Government"} => call.result = "Government only"
            /\ types = {"Academic", "Research"}
                 => call.result = "Academic and Research"
            /\ types = {"Academic", "Industry"}
                 => call.result = "Academic and Industry"
            /\ types = {"Academic", "Government"}
                 => call.result = "Academic and Government"
            /\ call.result = "Mixed Collaboration"
                 => \/ Cardinality(types) >= 3
                    \/ Cardinality(types) = 2 /\ "Academic" \notin types

Plotted ==
    /\ call.fn = "plot_institution_collab_types"
    /\ call.done
    /\ call.result.istable

RECURSIVE SumOver(_, _)
SumOver(f, S) ==
    IF S = {} THEN 0
    ELSE LET x == CHOOSE x \in S : TRUE IN f[x] + SumOver(f, S \ {x})

\* C25: the records whose affiliation text is empty or missing, or has no
\* segment of a known type, are counted in no category of the institution
\* table: the counts of the table add up to the number of the other records.
C25_UnknownRecordsNotCounted ==
    Plotted =>
        LET rows  == call.arg.rows
            known == {i \in 1..Len(rows) :
                        KnownTypes(as_text(rows[i].cells[AffiliationsCol]))
                            # {}}
        IN  SumOver(call.result.counts, DOMAIN call.result.counts)
              = Cardinality(known)

\* The keyword families in their priority order.
Families == <<"Academic", "Research", "Industry", "Government">>

FamilyKeys(f) ==
    CASE f = "Academic" -> ACADEMIC_KEYS
      [] f = "Research" -> RESEARCH_KEYS
      [] f = "Industry" -> INDUSTRY_KEYS
      [] f = "Government" -> GOVERNMENT_KEYS

\* Segment seg, lowered, holds a keyword of the family Families[j].
FamilyMatches(seg, j) ==
    \E i \in 1..Len(FamilyKeys(Families[j])) :
        \E p \in 1..Len(seg) :
            MatchAt(lower(seg), FamilyKeys(Families[j])[i], p)

\* The segments of a text that are not blank.
Segments(text) ==
    {seg \in SeqRange(split(text, ";")) : strip(seg) # <<>>}

Classified == call.fn = "_classify_institution_types" /\ call.done

\* C26: a type is in the set of a record exactly when some segment matches
\* its family and no family of higher priority, and Unknown is in it exactly
\* when some segment matches no family.
C26_FirstMatchingFamilyPerSegment ==
    Classified =>
        /\ \A j \in 1..Len(Families) :
              Families[j] \in call.result
                <=> \E seg \in Segments(call.arg) :
                       /\ FamilyMatches(seg, j)
                       /\ \A h \in 1..(j - 1) : ~FamilyMatches(seg, h)
        /\ "Unknown" \in call.result
             <=> \E seg \in Segments(call.arg) :
                    \A j \in 1..Len(Families) : ~FamilyMatches(seg, j)
        /\ call.result \subseteq SeqRange(Families) \cup {"Unknown"}

\* C26 witness: a record with a segment that matches both the Academic and
\* the Industry family, and one that matches none, classified as Academic
\* and Unknown only.
C26_Witness ==
    /\ Classified
    /\ call.result = {"Academic", "Unknown"}
    /\ \E seg \in Segments(call.arg) :
          FamilyMatches(seg, 1) /\ FamilyMatches(seg, 3)

\* The country of the first segment of an affiliation text, in the order of
\* the text, that names a country; Unknown when no segment does.
FirstCountryInText(text) ==
    LET segs   == split(text, ";")
        tok(i) == LET parts == split(segs[i], ",")
                  IN  strip(parts[Len(parts)])
        having == {i \in 1..Len(segs) : Len(tok(i)) >= 3}
    IN  IF having = {} THEN Unknown
        ELSE tok(CHOOSE i \in having : \A j \in having : i <= j)

\* C24: every country row of the collaboration table counts the records whose
\* first country, in the order of the affiliation text, is that country.
C24_MainCountryIsFirstInText ==
    Built =>
        LET rows  == call.arg.rows
            table == call.result.counts
        IN  \A c \in DOMAIN table \ {Unknown} :
                table[c].Domestic + table[c].International
                  = Cardinality({i \in 1..Len(rows) :
                        FirstCountryInText(
                            as_text(rows[i].cells[AffiliationsCol])) = c})

\* C30: every row of the collaboration table has a Domestic plus
\* International count of at least one.
C30_EveryRowCountsARecord ==
    Built =>
        \A c \in DOMAIN call.result.counts :
            call.result.counts[c].Domestic
              + call.result.counts[c].International >= 1

\* The keywords of a list, each once, in the order of their first places.
RECURSIVE DistinctWords(_)
DistinctWords(words) ==
    IF words = <<>> THEN <<>>
    ELSE LET front == DistinctWords(SubSeq(words, 1, Len(words) - 1))
             w     == words[Len(words)]
         IN  IF w \in SeqRange(front) THEN front ELSE Append(front, w)

\* The hit count of record i when every distinct keyword is counted once.
DistinctHitCount(d, i, cfg) ==
    LET words  == DistinctWords(_parse_keyword_mapping(cfg.raw).words)
        target == resolve_target_cols(d, cfg)
        cell(j) == d.rows[i].cells[target[j]]
        sum[j \in 0..Len(target)] ==
            IF j = 0 THEN 0
            ELSE sum[j - 1] + (IF isna(cell(j)) THEN 0
                               ELSE WordSum(cell(j), words, cfg.case))
    IN  sum[Len(target)]

\* C29: a filter pass keeps the records whose hit count, with every distinct
\* keyword of the raw query counted once, is at least the cutoff: entering a
\* keyword twice gives the result of entering it once.
C29_RepeatedKeywordCountsOnce ==
    op.name = "apply_filter_from_cfg" =>
        SeqRange(filtered_df.rows) =
            {df.rows[i] : i \in {j \in 1..Len(df.rows) :
                DistinctHitCount(df, j, filter_cfg) >= filter_cfg.cutoff}}

\* The Domestic and International counts of every main country of the data
\* set of the call.
AllCounts == scope_count(collab_keys(call.arg, AffiliationsCol))

====
